---- MODULE Spec2Model ----
(***************************************************************************)
(* Sentinel2ColorConverter (src/app.py): the world processor              *)
(* process_world_colors, the image fetcher fetch_tile_image, the reducer  *)
(* image_to_dominant_color and the partitioner get_world_tiles.           *)
(*                                                                         *)
(* Coordinates are exact integers in units of 2 cm (1 m = 50 units), the  *)
(* coarsest unit in which the world bound 20037508.34 m is an integer.    *)
(* Colour channels are integers in thousandths (0.502 is 502).            *)
(* An image is abstracted to a uniform raster of one pixel value.         *)
(* The working directory holds neither the checkpoint nor the output file *)
(* when a run starts, and writing a file never fails.                     *)
(***************************************************************************)
EXTENDS Integers, Sequences, FiniteSets, TLC

VARIABLES
    pc,            \* position of the single thread of control
    killed,        \* the process has been terminated from outside
    caller,        \* who called fetch_tile_image: "process" or "direct"
    access_token,  \* self.access_token
    auth_calls,    \* number of calls of authenticate
    resolution,    \* argument of process_world_colors
    tiles,         \* local: result of get_world_tiles
    world_data,    \* local: the dataset being accumulated
    i,             \* 0-based index of the tile in the per-tile loop
    retries,       \* argument of fetch_tile_image
    attempt,       \* loop index of fetch_tile_image
    image,         \* result of fetch_tile_image
    colors,        \* result of image_to_dominant_color
    resps,         \* log: the replies received by the current fetch
    sleeps,        \* log: the time.sleep calls of the current fetch
    any_request,   \* a process request has been issued in this run
    images_served, \* number of intact images the provider has served
    temp_file,     \* the file temp_<output_file>
    output_file,   \* the file <output_file>
    ckpt_writes,   \* number of times temp_<output_file> has been opened for writing
    conv,          \* the attributes of the converter other than access_token
    sweep,         \* the locals of get_world_tiles while its loops run
    credentials    \* CLIENT_ID and CLIENT_SECRET, passed to __init__

vars == <<pc, killed, caller, access_token, auth_calls, resolution, tiles, world_data, i,
          retries, attempt, image, colors, resps, sleeps, any_request,
          images_served, temp_file, output_file, ckpt_writes, conv, sweep, credentials>>

-----------------------------------------------------------------------------
(* Bounds of the model *)

\* the provider serves at most this many intact images in one run
MaxImages == 1

\* fetch_tile_image called directly is given 0..MaxRetries attempts
MaxRetries == 4

\* resolutions (km) given to process_world_colors: 3 tiles and 24 tiles
Resolutions == {20000, 8000}

\* resolutions (km) given to get_world_tiles when its loops are followed step
\* by step: none, 3, 15, 24 and 54 tiles, and two spans that are not positive
SweepResolutions == {41000, 20000, 17000, 10000, 8000, 5000, 0, -1}

\* iterations of the inner loop followed in one call of get_world_tiles
MaxSweepSteps == 100

\* small worlds on which the loops of get_world_tiles are also run
SmallWorlds ==
    {[west |-> -10, east |-> 10, south |-> -10, north |-> 10],
     [west |-> 0, east |-> 30, south |-> -5, north |-> 10]}

SmallSpans == {4, 5, 7, 10, 20, 25}

\* client ids and secrets are 0..MaxClientId
MaxClientId == 4

-----------------------------------------------------------------------------
(* Program constants *)

\* 20037508.34 m
WorldEdge == 1001875417

\* 15000000 m
PolarLimit == 750000000

DefaultRetries == 3

CheckpointEvery == 10

GridSize == 4

NoToken == "None"

NoColors == <<>>

world_bounds ==
    [west |-> -WorldEdge, east |-> WorldEdge, south |-> -WorldEdge, north |-> WorldEdge]

-----------------------------------------------------------------------------
(* The rendering collaborator and the image library *)

GoodPng == [fmt |-> "PNG", truncated |-> FALSE, px |-> 128]

\* a PNG whose header is intact and whose pixel data is cut short
TruncatedPng == [fmt |-> "PNG", truncated |-> TRUE, px |-> 128]

NotAnImage == [fmt |-> "text", truncated |-> FALSE, px |-> 0]

TransportFailure == [raised |-> TRUE, status_code |-> 0, content |-> NotAnImage]

HttpReply(code, body) == [raised |-> FALSE, status_code |-> code, content |-> body]

ProviderReplies ==
    {TransportFailure}
    \cup {HttpReply(200, b) : b \in {GoodPng, TruncatedPng, NotAnImage}}
    \cup {HttpReply(c, NotAnImage) : c \in {429, 500}}

NoImage == [present |-> FALSE, data |-> NotAnImage]

\* Image.open identifies the file from its header and reads no pixel data
ImageOpenRaises(content) == content.fmt # "PNG"

\* an opener that hands back one and the same image whatever the body
ImageOpenStale(content) == [present |-> TRUE, data |-> GoodPng]

ImageOpen(content) == [present |-> TRUE, data |-> content]

\* image.convert / image.resize load the pixel data
ImageLoadRaises(img) == img.data.truncated

Min(a, b) == IF a < b THEN a ELSE b

Abs(a) == IF a < 0 THEN -a ELSE a

-----------------------------------------------------------------------------
(* get_world_tiles *)

\* a tile whose east and north are the last coordinate inside it
TileWithinInclusive(wb, tile_id, x, y, tile_width, tile_height) ==
    [id |-> tile_id,
     bounds |-> [west  |-> x,
                 east  |-> Min(x + tile_width, wb.east) - 1,
                 south |-> y,
                 north |-> Min(y + tile_height, wb.north) - 1]]

\* a tile that is not clamped to the world
TileWithinUnclamped(wb, tile_id, x, y, tile_width, tile_height) ==
    [id |-> tile_id,
     bounds |-> [west  |-> x,
                 east  |-> x + tile_width,
                 south |-> y,
                 north |-> y + tile_height]]

\* tiles.append({'id': ..., 'bounds': {...}}), the world bounds being wb
TileWithin(wb, tile_id, x, y, tile_width, tile_height) ==
    [id |-> tile_id,
     bounds |-> [west  |-> x,
                 east  |-> Min(x + tile_width, wb.east),
                 south |-> y,
                 north |-> Min(y + tile_height, wb.north)]]

TileAt(tile_id, x, y, tile_width, tile_height) ==
    TileWithin(world_bounds, tile_id, x, y, tile_width, tile_height)

PolarSkip(y) == Abs(y) > PolarLimit

RECURSIVE SweepY(_, _, _, _, _)
SweepY(x, y, tile_id, acc, span) ==
    IF ~(y < world_bounds.north) THEN [tiles |-> acc, tile_id |-> tile_id]
    ELSE IF PolarSkip(y) THEN SweepY(x, y + span, tile_id, acc, span)
    ELSE SweepY(x, y + span, tile_id + 1,
                Append(acc, TileAt(tile_id, x, y, span, span)), span)

RECURSIVE SweepX(_, _, _, _)
SweepX(x, tile_id, acc, span) ==
    IF ~(x < world_bounds.east) THEN acc
    ELSE LET col == SweepY(x, world_bounds.south, tile_id, acc, span)
         IN  SweepX(x + span, col.tile_id, col.tiles, span)

\* tile_width = tile_height = resolution * 1000 metres, 50 units to the metre
TileSpan(res) == res * 1000 * 50

get_world_tiles(res) ==
    SweepX(world_bounds.west, 0, <<>>, TileSpan(res))

-----------------------------------------------------------------------------
(* image_to_dominant_color *)

\* round(mean / 255, 3), in thousandths
RobloxChannel(mean) == (mean * 2000 + 255) \div 510

image_to_dominant_color(img) ==
    IF ~img.present THEN NoColors
    ELSE [r \in 1..GridSize |->
            [c \in 1..GridSize |->
                <<RobloxChannel(img.data.px), RobloxChannel(img.data.px),
                  RobloxChannel(img.data.px)>>]]

-----------------------------------------------------------------------------
(* Files *)

AbsentFile == [exists |-> FALSE, complete |-> FALSE, data |-> <<>>]

\* open(path, 'w'): the file exists and is empty until the data is dumped
OpenedFile == [exists |-> TRUE, complete |-> FALSE, data |-> <<>>]

\* json.dump(world_data, f) and the close of the with block
DumpedFile(wd) == [exists |-> TRUE, complete |-> TRUE, data |-> wd.tiles]

-----------------------------------------------------------------------------
(* Initial states *)

\* f"{base}/api/v1/process"
ProcessUrlOf(base) == <<base, "/api/v1/process">>

\* the attributes __init__ is written to assign
Constructed(id, secret) ==
    [client_id |-> id, client_secret |-> secret,
     base_url |-> "https://sh.dataspace.copernicus.eu",
     process_url |-> ProcessUrlOf("https://sh.dataspace.copernicus.eu")]

\* get_world_tiles is not running
IdleSweep ==
    [pc |-> "idle", world |-> world_bounds, span |-> 0, x |-> 0, y |-> 0,
     tile_id |-> 0, out |-> <<>>, visits |-> <<>>, iters |-> 0]

\* process_world_colors is entered on a converter whose access_token is None,
\* as __init__ assigns it, or holds a credential stored earlier
Init ==
    /\ pc = "start"
    /\ killed = FALSE
    /\ caller = "process"
    /\ access_token \in {NoToken, "preset"}
    /\ auth_calls = 0
    /\ resolution \in Resolutions
    /\ tiles = <<>>
    /\ world_data = [resolution_km |-> 0, tiles |-> <<>>]
    /\ i = 0
    /\ retries = DefaultRetries
    /\ attempt = 0
    /\ image = NoImage
    /\ colors = NoColors
    /\ resps = <<>>
    /\ sleeps = <<>>
    /\ any_request = FALSE
    /\ images_served = 0
    /\ temp_file = AbsentFile
    /\ output_file = AbsentFile
    /\ ckpt_writes = 0
    /\ credentials = [CLIENT_ID |-> 1, CLIENT_SECRET |-> 1]
    /\ conv = Constructed(1, 1)
    /\ sweep = IdleSweep

\* fetch_tile_image called on its own, with any number of attempts
InitFetch ==
    /\ pc = "fetch"
    /\ killed = FALSE
    /\ caller = "direct"
    /\ access_token = "preset"
    /\ auth_calls = 0
    /\ resolution = 0
    /\ tiles = <<>>
    /\ world_data = [resolution_km |-> 0, tiles |-> <<>>]
    /\ i = 0
    /\ retries \in 0..MaxRetries
    /\ attempt = 0
    /\ image = NoImage
    /\ colors = NoColors
    /\ resps = <<>>
    /\ sleeps = <<>>
    /\ any_request = FALSE
    /\ images_served = 0
    /\ temp_file = AbsentFile
    /\ output_file = AbsentFile
    /\ ckpt_writes = 0
    /\ credentials = [CLIENT_ID |-> 1, CLIENT_SECRET |-> 1]
    /\ conv = Constructed(1, 1)
    /\ sweep = IdleSweep

-----------------------------------------------------------------------------
(* process_world_colors: authentication and set-up *)

\* the thread of control is at position l and has not been terminated
At(l) == ~killed /\ pc = l

\* a converter that authenticates on every run
TokenMissingAlways(token) == TRUE

\* if not self.access_token
TokenMissing(token) == token = NoToken

Start ==
    /\ At("start")
    /\ pc' = IF TokenMissing(access_token) THEN "authenticate" ELSE "init_data"
    /\ UNCHANGED <<credentials, conv, sweep, killed, caller, access_token, auth_calls, resolution, tiles, world_data, i,
                   retries, attempt, image, colors, resps, sleeps, any_request,
                   images_served, temp_file, output_file, ckpt_writes>>

\* authenticate: status 200 stores the token; any other status raises, and so
\* does a failing requests.post or a 200 body without an access_token
AuthOutcomes == {"ok", "status_error", "transport_error", "bad_body"}

Authenticate(outcome) ==
    /\ At("authenticate")
    /\ auth_calls' = auth_calls + 1
    /\ IF outcome = "ok"
         THEN /\ access_token' = "granted"
              /\ pc' = "init_data"
         ELSE /\ access_token' = access_token
              /\ pc' = "auth_failed"
    /\ UNCHANGED <<credentials, conv, sweep, killed, caller, resolution, tiles, world_data, i, retries, attempt, image,
                   colors, resps, sleeps, any_request, images_served, temp_file,
                   output_file, ckpt_writes>>

\* world_data = {...}; tiles = self.get_world_tiles(resolution)
Begin ==
    /\ At("init_data")
    /\ world_data' = [resolution_km |-> resolution, tiles |-> <<>>]
    /\ tiles' = get_world_tiles(resolution)
    /\ i' = 0
    /\ pc' = "loop"
    /\ UNCHANGED <<credentials, conv, sweep, killed, caller, access_token, auth_calls, resolution, retries, attempt,
                   image, colors, resps, sleeps, any_request, images_served,
                   temp_file, output_file, ckpt_writes>>

-----------------------------------------------------------------------------
(* fetch_tile_image *)

\* a linear backoff
BackoffWaitLinear(a) == 2 * a

\* wait_time = 2 ** attempt
BackoffWait(a) == 2 ^ a

Slept(a) == [attempt |-> a, secs |-> BackoffWait(a)]

\* except Exception: if attempt < retries - 1: time.sleep(2 ** attempt)
ExceptSleeps(a, n, log) == IF a < n - 1 THEN Append(log, Slept(a)) ELSE log

\* elif response.status_code == 429: time.sleep(wait_time)
RateLimitSleeps(a, n, log) == Append(log, Slept(a))

\* one uniform retry policy: back off after an error status too
ErrorStatusBacksOff(a, n, log) == Append(log, [attempt |-> a, secs |-> 2 ^ a])

\* else: print(...)
ErrorStatusSleeps(a, n, log) == log

FetchReturnPc == IF caller = "process" THEN "reduce" ELSE "fetch_returned"

\* one pass of the body of  for attempt in range(retries)
FetchAttempt(reply) ==
    /\ At("fetch")
    /\ attempt < retries
    /\ reply = HttpReply(200, GoodPng) => images_served < MaxImages
    /\ resps' = Append(resps, reply)
    /\ any_request' = TRUE
    /\ IF reply.raised
         THEN /\ sleeps' = ExceptSleeps(attempt, retries, sleeps)
              /\ attempt' = attempt + 1
              /\ UNCHANGED <<pc, image, images_served>>
       ELSE IF reply.status_code = 200
         THEN IF ImageOpenRaises(reply.content)
                THEN /\ sleeps' = ExceptSleeps(attempt, retries, sleeps)
                     /\ attempt' = attempt + 1
                     /\ UNCHANGED <<pc, image, images_served>>
                ELSE /\ image' = ImageOpen(reply.content)
                     /\ images_served' =
                            IF reply.content = GoodPng THEN images_served + 1
                            ELSE images_served
                     /\ pc' = FetchReturnPc
                     /\ UNCHANGED <<sleeps, attempt>>
       ELSE IF reply.status_code = 429
         THEN /\ sleeps' = RateLimitSleeps(attempt, retries, sleeps)
              /\ attempt' = attempt + 1
              /\ UNCHANGED <<pc, image, images_served>>
       ELSE /\ sleeps' = ErrorStatusSleeps(attempt, retries, sleeps)
            /\ attempt' = attempt + 1
            /\ UNCHANGED <<pc, image, images_served>>
    /\ UNCHANGED <<credentials, conv, sweep, killed, caller, access_token, auth_calls, resolution, tiles, world_data, i,
                   retries, colors, temp_file, output_file, ckpt_writes>>

\* the for loop is exhausted: return None
FetchExhausted ==
    /\ At("fetch")
    /\ ~(attempt < retries)
    /\ image' = NoImage
    /\ pc' = FetchReturnPc
    /\ UNCHANGED <<credentials, conv, sweep, killed, caller, access_token, auth_calls, resolution, tiles, world_data, i,
                   retries, attempt, colors, resps, sleeps, any_request,
                   images_served, temp_file, output_file, ckpt_writes>>

-----------------------------------------------------------------------------
(* process_world_colors: the per-tile loop *)

\* for i, tile in enumerate(tiles): image = self.fetch_tile_image(tile['bounds'])
LoopNext ==
    /\ At("loop")
    /\ i < Len(tiles)
    /\ retries' = DefaultRetries
    /\ attempt' = 0
    /\ resps' = <<>>
    /\ sleeps' = <<>>
    /\ pc' = "fetch"
    /\ UNCHANGED <<credentials, conv, sweep, killed, caller, access_token, auth_calls, resolution, tiles, world_data, i,
                   image, colors, any_request, images_served, temp_file,
                   output_file, ckpt_writes>>

\* colors = self.image_to_dominant_color(image); an error of convert or resize
\* is not handled and leaves process_world_colors
Reduce ==
    /\ At("reduce")
    /\ IF image.present /\ ImageLoadRaises(image)
         THEN /\ pc' = "reduce_raised"
              /\ UNCHANGED colors
         ELSE /\ colors' = image_to_dominant_color(image)
              /\ pc' = "append"
    /\ resps' = <<>>
    /\ sleeps' = <<>>
    /\ UNCHANGED <<credentials, conv, sweep, killed, caller, access_token, auth_calls, resolution, tiles, world_data, i,
                   retries, attempt, image, any_request, images_served, temp_file,
                   output_file, ckpt_writes>>

\* a record that reports data for every tile
HasDataAlways(cols) == TRUE

\* "has_data": colors is not None
HasData(cols) == cols # NoColors

TileResult(tile, cols) ==
    [id |-> tile.id, bounds |-> tile.bounds, colors |-> cols, has_data |-> HasData(cols)]

\* a result put in front of the earlier ones
AppendResultInFront ==
    /\ At("append")
    /\ world_data' = [world_data EXCEPT
                        !.tiles = <<TileResult(tiles[i + 1], colors)>> \o @]
    /\ pc' = "checkpoint"
    /\ UNCHANGED <<credentials, conv, sweep, killed, caller, access_token, auth_calls, resolution, tiles, i, retries,
                   attempt, image, colors, resps, sleeps, any_request, images_served,
                   temp_file, output_file, ckpt_writes>>

\* world_data["tiles"].append(tile_data)
AppendResult ==
    /\ At("append")
    /\ world_data' = [world_data EXCEPT
                        !.tiles = Append(@, TileResult(tiles[i + 1], colors))]
    /\ pc' = "checkpoint"
    /\ UNCHANGED <<credentials, conv, sweep, killed, caller, access_token, auth_calls, resolution, tiles, i, retries,
                   attempt, image, colors, resps, sleeps, any_request, images_served,
                   temp_file, output_file, ckpt_writes>>

\* if (i + 1) % 10 == 0
CheckpointDue(k) == (k + 1) % CheckpointEvery = 0

\* with open(f"temp_{output_file}", 'w') as f
CheckpointOpen ==
    /\ At("checkpoint")
    /\ CheckpointDue(i)
    /\ temp_file' = OpenedFile
    /\ ckpt_writes' = ckpt_writes + 1
    /\ pc' = "checkpoint_dump"
    /\ UNCHANGED <<credentials, conv, sweep, killed, caller, access_token, auth_calls, resolution, tiles, world_data, i,
                   retries, attempt, image, colors, resps, sleeps, any_request,
                   images_served, output_file>>

\* json.dump(world_data, f, indent=2)
CheckpointDump ==
    /\ At("checkpoint_dump")
    /\ temp_file' = DumpedFile(world_data)
    /\ pc' = "pace"
    /\ UNCHANGED <<credentials, conv, sweep, killed, caller, access_token, auth_calls, resolution, tiles, world_data, i,
                   retries, attempt, image, colors, resps, sleeps, any_request,
                   images_served, output_file, ckpt_writes>>

CheckpointSkip ==
    /\ At("checkpoint")
    /\ ~CheckpointDue(i)
    /\ pc' = "pace"
    /\ UNCHANGED <<credentials, conv, sweep, killed, caller, access_token, auth_calls, resolution, tiles, world_data, i,
                   retries, attempt, image, colors, resps, sleeps, any_request,
                   images_served, temp_file, output_file, ckpt_writes>>

\* time.sleep(1), and on to the next tile
Pace ==
    /\ At("pace")
    /\ i' = i + 1
    /\ pc' = "loop"
    /\ UNCHANGED <<credentials, conv, sweep, killed, caller, access_token, auth_calls, resolution, tiles, world_data,
                   retries, attempt, image, colors, resps, sleeps, any_request,
                   images_served, temp_file, output_file, ckpt_writes>>

-----------------------------------------------------------------------------
(* process_world_colors: final save and clean-up *)

LoopDone ==
    /\ At("loop")
    /\ ~(i < Len(tiles))
    /\ pc' = "final_open"
    /\ UNCHANGED <<credentials, conv, sweep, killed, caller, access_token, auth_calls, resolution, tiles, world_data, i,
                   retries, attempt, image, colors, resps, sleeps, any_request,
                   images_served, temp_file, output_file, ckpt_writes>>

\* a final save that removes the checkpoint as soon as the output file is opened
FinalOpenRemovesCheckpoint ==
    /\ At("final_open")
    /\ output_file' = OpenedFile
    /\ temp_file' = AbsentFile
    /\ pc' = "final_dump"
    /\ UNCHANGED <<credentials, conv, sweep, killed, caller, access_token, auth_calls, resolution, tiles, world_data, i,
                   retries, attempt, image, colors, resps, sleeps, any_request,
                   images_served, ckpt_writes>>

\* with open(output_file, 'w') as f
FinalOpen ==
    /\ At("final_open")
    /\ output_file' = OpenedFile
    /\ pc' = "final_dump"
    /\ UNCHANGED <<credentials, conv, sweep, killed, caller, access_token, auth_calls, resolution, tiles, world_data, i,
                   retries, attempt, image, colors, resps, sleeps, any_request,
                   images_served, temp_file, ckpt_writes>>

\* json.dump(world_data, f, indent=2)
FinalDump ==
    /\ At("final_dump")
    /\ output_file' = DumpedFile(world_data)
    /\ pc' = "cleanup"
    /\ UNCHANGED <<credentials, conv, sweep, killed, caller, access_token, auth_calls, resolution, tiles, world_data, i,
                   retries, attempt, image, colors, resps, sleeps, any_request,
                   images_served, temp_file, ckpt_writes>>

\* if os.path.exists(temp): os.remove(temp)
RemoveIfExists(f) == IF f.exists THEN AbsentFile ELSE f

\* clean up the temp file and return world_data
Cleanup ==
    /\ At("cleanup")
    /\ temp_file' = RemoveIfExists(temp_file)
    /\ pc' = "returned"
    /\ UNCHANGED <<credentials, conv, sweep, killed, caller, access_token, auth_calls, resolution, tiles, world_data, i,
                   retries, attempt, image, colors, resps, sleeps, any_request,
                   images_served, output_file, ckpt_writes>>

\* positions at which the run is still going
Running ==
    pc \in {"start", "authenticate", "init_data", "loop", "fetch", "reduce", "append",
            "checkpoint", "checkpoint_dump", "pace", "final_open", "final_dump",
            "cleanup"}

\* the process is terminated from outside
Kill ==
    /\ ~killed
    /\ Running
    /\ killed' = TRUE
    /\ UNCHANGED <<credentials, conv, sweep, pc, caller, access_token, auth_calls, resolution, tiles, world_data, i,
                   retries, attempt, image, colors, resps, sleeps, any_request,
                   images_served, temp_file, output_file, ckpt_writes>>

-----------------------------------------------------------------------------
(* get_world_tiles, one loop iteration at a time.  The loops read the local
   world_bounds; they are run on the bounds the code assigns to it and, with
   positive spans, on small ones. *)

\* tiles = []; x = world_bounds['west']; tile_id = 0
StartSweep(wb, span) ==
    [pc |-> "outer", world |-> wb, span |-> span, x |-> wb.west, y |-> wb.south,
     tile_id |-> 0, out |-> <<>>, visits |-> <<>>, iters |-> 0]

SweepInputs ==
    {StartSweep(world_bounds, TileSpan(r)) : r \in SweepResolutions}
    \cup {StartSweep(wb, sp) : wb \in SmallWorlds, sp \in SmallSpans}

InitSweep ==
    /\ pc = "get_world_tiles"
    /\ killed = FALSE
    /\ caller = "direct"
    /\ access_token = NoToken
    /\ auth_calls = 0
    /\ resolution = 0
    /\ tiles = <<>>
    /\ world_data = [resolution_km |-> 0, tiles |-> <<>>]
    /\ i = 0
    /\ retries = DefaultRetries
    /\ attempt = 0
    /\ image = NoImage
    /\ colors = NoColors
    /\ resps = <<>>
    /\ sleeps = <<>>
    /\ any_request = FALSE
    /\ images_served = 0
    /\ temp_file = AbsentFile
    /\ output_file = AbsentFile
    /\ ckpt_writes = 0
    /\ credentials = [CLIENT_ID |-> 1, CLIENT_SECRET |-> 1]
    /\ conv = Constructed(1, 1)
    /\ sweep \in SweepInputs

\* a loop test that lets the cursor reach the boundary
CursorInsideOrOn(c, limit) == c <= limit

\* while x < world_bounds['east'], while y < world_bounds['north']
CursorInside(c, limit) == c < limit

\* a skip that forgets to move the cursor
StayAfterSkip(y, span) == y

\* y += tile_height; continue
AdvanceAfterSkip(y, span) == y + span

\* a counter that numbers the positions, skipped ones included
NextTileIdCountsSkips(tile_id, emitted) == tile_id + 1

\* tile_id += 1, after an emitted tile only
NextTileId(tile_id, emitted) == IF emitted THEN tile_id + 1 ELSE tile_id

Visit(x, y, emitted) == [x |-> x, y |-> y, emitted |-> emitted]

\* while x < world_bounds['east']: y = world_bounds['south']
SweepColumn ==
    /\ sweep.pc = "outer"
    /\ CursorInside(sweep.x, sweep.world.east)
    /\ sweep' = [sweep EXCEPT !.y = sweep.world.south, !.pc = "inner"]
    /\ UNCHANGED <<credentials, conv, pc, killed, caller, access_token, auth_calls, resolution, tiles,
                   world_data, i, retries, attempt, image, colors, resps, sleeps,
                   any_request, images_served, temp_file, output_file, ckpt_writes>>

\* one pass of the body of  while y < world_bounds['north']
SweepPosition ==
    /\ sweep.pc = "inner"
    /\ CursorInside(sweep.y, sweep.world.north)
    /\ sweep.iters < MaxSweepSteps
    /\ IF PolarSkip(sweep.y)
         THEN sweep' = [sweep EXCEPT
                  !.y = AdvanceAfterSkip(sweep.y, sweep.span),
                  !.tile_id = NextTileId(sweep.tile_id, FALSE),
                  !.visits = Append(@, Visit(sweep.x, sweep.y, FALSE)),
                  !.iters = @ + 1]
         ELSE sweep' = [sweep EXCEPT
                  !.out = Append(@, TileWithin(sweep.world, sweep.tile_id, sweep.x,
                                               sweep.y, sweep.span, sweep.span)),
                  !.tile_id = NextTileId(sweep.tile_id, TRUE),
                  !.y = sweep.y + sweep.span,
                  !.visits = Append(@, Visit(sweep.x, sweep.y, TRUE)),
                  !.iters = @ + 1]
    /\ UNCHANGED <<credentials, conv, pc, killed, caller, access_token, auth_calls, resolution, tiles,
                   world_data, i, retries, attempt, image, colors, resps, sleeps,
                   any_request, images_served, temp_file, output_file, ckpt_writes>>

\* the inner loop is left: x += tile_width
SweepColumnDone ==
    /\ sweep.pc = "inner"
    /\ ~CursorInside(sweep.y, sweep.world.north)
    /\ sweep' = [sweep EXCEPT !.x = sweep.x + sweep.span, !.pc = "outer"]
    /\ UNCHANGED <<credentials, conv, pc, killed, caller, access_token, auth_calls, resolution, tiles,
                   world_data, i, retries, attempt, image, colors, resps, sleeps,
                   any_request, images_served, temp_file, output_file, ckpt_writes>>

\* the outer loop is left: return tiles
SweepReturn ==
    /\ sweep.pc = "outer"
    /\ ~CursorInside(sweep.x, sweep.world.east)
    /\ sweep' = [sweep EXCEPT !.pc = "done"]
    /\ UNCHANGED <<credentials, conv, pc, killed, caller, access_token, auth_calls, resolution, tiles,
                   world_data, i, retries, attempt, image, colors, resps, sleeps,
                   any_request, images_served, temp_file, output_file, ckpt_writes>>

-----------------------------------------------------------------------------
(* main and __init__ *)

\* "your_client_id_here"
PlaceholderId == 0

ClientIds == 0..MaxClientId

\* no converter object exists yet
NoConverter == [client_id |-> 0, client_secret |-> 0, base_url |-> "", process_url |-> <<>>]

\* the names an expression inside __init__ can refer to: its parameters and
\* the names bound at module level
InitLocals == {"self", "client_id", "client_secret"}

ModuleGlobals ==
    {"requests", "json", "np", "Image", "io", "time", "os", "datetime", "base64",
     "Sentinel2ColorConverter", "main"}

Resolves(name) == name \in InitLocals \cup ModuleGlobals

\* main is run with the credentials written into it, or the class is
\* instantiated directly with any client id and secret
InitMain ==
    /\ pc \in {"main", "construct"}
    /\ caller = IF pc = "main" THEN "main" ELSE "direct"
    /\ credentials \in [CLIENT_ID : ClientIds, CLIENT_SECRET : ClientIds]
    /\ conv = NoConverter
    /\ killed = FALSE
    /\ access_token = NoToken
    /\ auth_calls = 0
    /\ resolution = 0
    /\ tiles = <<>>
    /\ world_data = [resolution_km |-> 0, tiles |-> <<>>]
    /\ i = 0
    /\ retries = DefaultRetries
    /\ attempt = 0
    /\ image = NoImage
    /\ colors = NoColors
    /\ resps = <<>>
    /\ sleeps = <<>>
    /\ any_request = FALSE
    /\ images_served = 0
    /\ temp_file = AbsentFile
    /\ output_file = AbsentFile
    /\ ckpt_writes = 0
    /\ sweep = IdleSweep

\* if CLIENT_ID == "your_client_id_here": print(...); return
MainCheck ==
    /\ At("main")
    /\ pc' = IF credentials.CLIENT_ID = PlaceholderId THEN "main_returned" ELSE "construct"
    /\ UNCHANGED <<credentials, conv, sweep, killed, caller, access_token, auth_calls, resolution,
                   tiles, world_data, i, retries, attempt, image, colors, resps, sleeps,
                   any_request, images_served, temp_file, output_file, ckpt_writes>>

\* self.client_id = ...; self.client_secret = ...; self.access_token = None;
\* self.base_url = "https://sh.dataspace.copernicus.eu"
InitAssign ==
    /\ At("construct")
    /\ conv' = [conv EXCEPT !.client_id = credentials.CLIENT_ID,
                            !.client_secret = credentials.CLIENT_SECRET,
                            !.base_url = "https://sh.dataspace.copernicus.eu"]
    /\ access_token' = NoToken
    /\ pc' = "init_process_url"
    /\ UNCHANGED <<credentials, sweep, killed, caller, auth_calls, resolution,
                   tiles, world_data, i, retries, attempt, image, colors, resps, sleeps,
                   any_request, images_served, temp_file, output_file, ckpt_writes>>

\* self.process_url = f"{base_url}/api/v1/process": the f-string reads the
\* bare name base_url; a name that does not resolve raises NameError
InitProcessUrl ==
    /\ At("init_process_url")
    /\ IF Resolves("base_url")
         THEN /\ conv' = [conv EXCEPT !.process_url = ProcessUrlOf(conv.base_url)]
              /\ pc' = "constructed"
         ELSE /\ pc' = "ctor_raised"
              /\ UNCHANGED conv
    /\ UNCHANGED <<credentials, sweep, killed, caller, access_token, auth_calls, resolution,
                   tiles, world_data, i, retries, attempt, image, colors, resps, sleeps,
                   any_request, images_served, temp_file, output_file, ckpt_writes>>

\* converter = Sentinel2ColorConverter(CLIENT_ID, CLIENT_SECRET) stands before
\* the try block of main: the exception leaves main
MainPropagates ==
    /\ At("ctor_raised")
    /\ caller = "main"
    /\ pc' = "main_raised"
    /\ UNCHANGED <<credentials, conv, sweep, killed, caller, access_token, auth_calls, resolution,
                   tiles, world_data, i, retries, attempt, image, colors, resps, sleeps,
                   any_request, images_served, temp_file, output_file, ckpt_writes>>

-----------------------------------------------------------------------------
(* Properties *)

Appended == world_data.tiles

Last(seq) == seq[Len(seq)]

IsOk(reply) == ~reply.raised /\ reply.status_code = 200

IsRateLimit(reply) == ~reply.raised /\ reply.status_code = 429

IsErrorStatus(reply) == ~reply.raised /\ reply.status_code \notin {200, 429}

\* C1: a run that passed authentication ends with a final dataset holding
\* exactly one TileResult per tile of get_world_tiles, in order, whatever the
\* fetches answered: the run never ends by an error of the per-tile loop, and
\* when it returns, the dataset and the output file hold one result per tile.
C1_OneResultPerTile ==
    /\ pc # "reduce_raised"
    /\ pc = "returned" =>
         /\ Len(Appended) = Len(get_world_tiles(resolution))
         /\ \A k \in 1..Len(Appended) : Appended[k].id = get_world_tiles(resolution)[k].id
         /\ output_file.complete
         /\ output_file.data = Appended

\* C2: no failure of fetching or reducing a tile is raised out of the per-tile
\* loop: the run never stands at an error raised by the reducer, and a failed
\* fetch reaches the append with absent colours.
C2_FailuresContained ==
    /\ pc = "reduce_raised" => FALSE
    /\ pc = "append" /\ ~image.present => colors = NoColors

\* C3: every appended TileResult has has_data true iff colors is non-null and
\* carries the id and bounds of its tile; a tile whose fetch returned absent
\* is recorded with has_data false and colors null.
C3_HasDataIffColors ==
    /\ \A k \in 1..Len(Appended) :
         /\ Appended[k].has_data <=> (Appended[k].colors # NoColors)
         /\ Appended[k].id = tiles[k].id
         /\ Appended[k].bounds = tiles[k].bounds
    /\ pc = "checkpoint" /\ ~image.present =>
         /\ Last(Appended).has_data = FALSE
         /\ Last(Appended).colors = NoColors

C3_Witness ==
    /\ pc = "checkpoint"
    /\ ~image.present
    /\ attempt = retries
    /\ Len(Appended) >= 2
    /\ Appended[1].has_data
    /\ ~Last(Appended).has_data

\* C4: a run that starts without a credential and fails to authenticate stops
\* at once with no tile generated, no request issued, no result appended and
\* no file written; authenticate is called only when the credential is
\* missing and before any fetch request; a failed authenticate is followed by
\* no further step.
C4_AuthFailureAborts ==
    /\ [](pc = "auth_failed" =>
            /\ tiles = <<>>
            /\ Appended = <<>>
            /\ ~any_request
            /\ ~temp_file.exists
            /\ ~output_file.exists
            /\ ckpt_writes = 0)
    /\ [][/\ pc # "auth_failed"
          /\ auth_calls' # auth_calls => access_token = NoToken /\ ~any_request
          /\ pc = "authenticate" /\ pc' # "authenticate" /\ access_token' = NoToken
               => pc' = "auth_failed"
          /\ any_request' /\ ~any_request => access_token # NoToken]_vars

C4_Witness ==
    /\ pc = "auth_failed"
    /\ auth_calls = 1
    /\ access_token = NoToken

\* number of checkpoint writes begun once the count of appended results has
\* reached each multiple of 10; at "checkpoint" the newest result is appended
\* and its checkpoint test is still to come
WritesDue ==
    IF pc = "checkpoint" THEN (Len(Appended) - 1) \div 10 ELSE Len(Appended) \div 10

\* C5: the checkpoint is written exactly at the multiples of 10, a run of fewer
\* than 10 tiles writes none, and whenever the checkpoint file exists during
\* the run its tiles are the first 10*k appended results, for some k >= 1.
C5_ExistingCheckpointHoldsTenfold ==
    /\ ckpt_writes = WritesDue
    /\ Len(tiles) < 10 => ckpt_writes = 0
    /\ temp_file.exists =>
         \E k \in 1..(Len(Appended) \div 10) : temp_file.data = SubSeq(Appended, 1, 10 * k)

\* What the checkpoint does satisfy: the writes are counted as above, and the
\* file holds the first 10*ckpt_writes results whenever it exists and no write
\* of it is under way; while a write is under way it exists and holds nothing.
CompleteCheckpointHoldsTenfold ==
    /\ ckpt_writes = WritesDue
    /\ Len(tiles) < 10 => ckpt_writes = 0 /\ ~temp_file.exists
    /\ temp_file.exists /\ temp_file.complete =>
         /\ ckpt_writes >= 1
         /\ temp_file.data = SubSeq(Appended, 1, 10 * ckpt_writes)
    /\ temp_file.exists /\ ~temp_file.complete =>
         /\ pc = "checkpoint_dump"
         /\ temp_file.data = <<>>

\* number of appended results that the checkpoint file on disk gives back
Recoverable == IF temp_file.exists /\ temp_file.complete THEN Len(temp_file.data) ELSE 0

\* number of appended results whose tile is done with: from the append to the
\* end of the pacing sleep the newest result belongs to the tile in progress
CompletedResults ==
    IF pc \in {"checkpoint", "checkpoint_dump", "pace"}
    THEN Len(Appended) - 1 ELSE Len(Appended)

\* C6: when the run is terminated between the first append and the end of the
\* final write, at most 9 results of completed tiles (the tile in progress not
\* counted) are missing from the checkpoint file on disk.
C6_LossAtMostNine ==
    killed /\ Len(Appended) >= 1 /\ ~output_file.complete =>
        CompletedResults - Recoverable <= 9

\* C7: the output file is written only after the per-tile loop has finished;
\* the checkpoint is removed only when the output file already holds the
\* complete dataset; when the run returns the output file holds every
\* TileResult and no checkpoint remains.
C7_FinalWriteThenCleanup ==
    /\ [](pc = "returned" =>
            /\ output_file.complete
            /\ output_file.data = Appended
            /\ Len(Appended) = Len(tiles)
            /\ ~temp_file.exists)
    /\ [][/\ temp_file.exists /\ ~temp_file'.exists =>
               /\ output_file.complete
               /\ output_file.data = Appended
               /\ Len(Appended) = Len(tiles)
          /\ output_file' # output_file =>
               /\ i = Len(tiles)
               /\ Len(Appended) = Len(tiles)]_vars

C7_Witness ==
    /\ pc = "returned"
    /\ Len(tiles) >= 20
    /\ ckpt_writes = 2
    /\ ~temp_file.exists
    /\ output_file.complete
    /\ Len(output_file.data) = Len(tiles)
    /\ \A k \in 1..Len(output_file.data) : ~output_file.data[k].has_data

\* the sleeps performed after the attempt with 0-based index a
SleepsOf(a) == SelectSeq(sleeps, LAMBDA s : s.attempt = a)

OneSleep(a) == <<[attempt |-> a, secs |-> 2 ^ a]>>

OnlyRateLimits == \A k \in 1..Len(resps) : IsRateLimit(resps[k])

\* C8: against a provider that answers every request with 429, a fetch with
\* max_attempts >= 1 sleeps 2^a after the attempt with index a (1, 2, 4, ...,
\* strictly increasing), and returns only after exactly max_attempts requests,
\* with no image.
C8_AlwaysRateLimited ==
    retries >= 1 /\ OnlyRateLimits =>
        /\ sleeps = [k \in 1..Len(resps) |-> [attempt |-> k - 1, secs |-> 2 ^ (k - 1)]]
        /\ \A a, b \in 1..Len(sleeps) : a < b => sleeps[a].secs < sleeps[b].secs
        /\ pc = "fetch_returned" => Len(resps) = retries /\ ~image.present

C8_Witness ==
    /\ pc = "fetch_returned"
    /\ retries = 3
    /\ Len(resps) = 3
    /\ OnlyRateLimits
    /\ Len(sleeps) = 3

\* C9 as stated: when the k-th reply is the first with an OK status, the fetch
\* has returned the image of that reply after exactly k requests.
C9_FirstOkReturns ==
    \A k \in 1..Len(resps) :
        IsOk(resps[k]) /\ (\A j \in 1..(k - 1) : ~IsOk(resps[j])) =>
            /\ Len(resps) = k
            /\ pc = "fetch_returned"
            /\ image.present
            /\ image.data = resps[k].content

Opens(reply) == IsOk(reply) /\ ~ImageOpenRaises(reply.content)

\* C9 amended: when the k-th reply is the first with an OK status and a body
\* that Image.open accepts, the fetch has returned the image of that reply
\* after exactly k requests; an OK reply whose body Image.open rejects is
\* handled as a transport failure: the fetch does not return on it, and it
\* sleeps 2^a after it when an attempt remains.
C9_FirstOpenableOkReturns ==
    \A k \in 1..Len(resps) :
        /\ Opens(resps[k]) =>
              /\ Len(resps) = k
              /\ pc = "fetch_returned"
              /\ image.present
              /\ image.data = resps[k].content
        /\ IsOk(resps[k]) /\ ~Opens(resps[k]) =>
              /\ attempt >= k
              /\ pc = "fetch_returned" => ~image.present \/ Len(resps) > k
              /\ SleepsOf(k - 1) = IF k < retries THEN OneSleep(k - 1) ELSE <<>>

C9_Witness ==
    /\ pc = "fetch_returned"
    /\ retries = 3
    /\ Len(resps) = 2
    /\ IsRateLimit(resps[1])
    /\ resps[2] = HttpReply(200, TruncatedPng)
    /\ image = [present |-> TRUE, data |-> TruncatedPng]

\* C10: after the attempt with index a, a rate-limit reply is followed by one
\* sleep of 2^a, a transport failure by one sleep of 2^a when an attempt
\* remains and by none otherwise, any other error status by no sleep; each of
\* the three consumes exactly one attempt.
C10_BackoffPolicyTable ==
    /\ Len(resps) <= retries
    /\ \A k \in 1..Len(resps) :
         /\ IsRateLimit(resps[k]) => SleepsOf(k - 1) = OneSleep(k - 1)
         /\ resps[k].raised =>
              SleepsOf(k - 1) = IF k < retries THEN OneSleep(k - 1) ELSE <<>>
         /\ IsErrorStatus(resps[k]) => SleepsOf(k - 1) = <<>>
         /\ (IsRateLimit(resps[k]) \/ resps[k].raised \/ IsErrorStatus(resps[k]))
              /\ k = Len(resps) => attempt = k

C10_Witness ==
    /\ pc = "fetch_returned"
    /\ retries = 3
    /\ Len(resps) = 3
    /\ IsErrorStatus(resps[1])
    /\ IsRateLimit(resps[2])
    /\ resps[3].raised
    /\ sleeps = OneSleep(1)

Out == sweep.out

\* the loops of get_world_tiles, followed step by step on the code's world
\* bounds, return what the operator get_world_tiles computes
SweepAgreesWithOperator ==
    \A r \in Resolutions \cup {10000, 41000} :
        sweep.pc = "done" /\ sweep.world = world_bounds /\ sweep.span = TileSpan(r) =>
            Out = get_world_tiles(r)

\* C11: the i-th emitted tile has id i (unique, contiguous from 0, strictly
\* increasing), skipped polar positions consume no id, and tiles are emitted
\* west to east in the outer loop and south to north in the inner loop.
C11_IdsContiguousInEmissionOrder ==
    /\ sweep.tile_id = Len(Out)
    /\ \A k \in 1..Len(Out) : Out[k].id = k - 1
    /\ \A k, l \in 1..Len(Out) :
         k < l =>
            /\ Out[k].id < Out[l].id
            /\ sweep.span > 0 =>
                 \/ Out[k].bounds.west < Out[l].bounds.west
                 \/ /\ Out[k].bounds.west = Out[l].bounds.west
                    /\ Out[k].bounds.south < Out[l].bounds.south

C11_Witness ==
    /\ sweep.pc = "done"
    /\ sweep.world = world_bounds
    /\ Len(Out) = 54
    /\ \E v \in 1..Len(sweep.visits) :
         ~sweep.visits[v].emitted /\ sweep.visits[v].x > world_bounds.west

\* twice the vertical centre of the tile of sweep position v: south plus the
\* clamped north
TwiceCentre(v) ==
    v.y + Min(v.y + sweep.span, sweep.world.north)

\* C12: a sweep position is emitted exactly when the absolute value of its
\* tile's vertical centre does not exceed the polar-exclusion threshold.
C12_EmittedIffCentreWithinLimit ==
    \A k \in 1..Len(sweep.visits) :
        sweep.visits[k].emitted <=> Abs(TwiceCentre(sweep.visits[k])) <= 2 * PolarLimit

\* the rectangle of sweep position v, whether or not a tile was emitted for it
CellOf(v) ==
    [west |-> v.x, east |-> Min(v.x + sweep.span, sweep.world.east),
     south |-> v.y, north |-> Min(v.y + sweep.span, sweep.world.north)]

\* point p belongs to rectangle b: an edge point belongs to the rectangle of
\* which it is the lower bound, and the world's east and north edges, which
\* are the lower bound of no rectangle, belong to the rectangles that end there
Holds(b, p) ==
    /\ b.west <= p.x
    /\ p.x < b.east \/ (p.x = b.east /\ b.east = sweep.world.east)
    /\ b.south <= p.y
    /\ p.y < b.north \/ (p.y = b.north /\ b.north = sweep.world.north)

Max(a, b) == IF a >= b THEN a ELSE b

InteriorsMeet(a, b) ==
    /\ Max(a.west, b.west) < Min(a.east, b.east)
    /\ Max(a.south, b.south) < Min(a.north, b.north)

\* every edge of the sweep, and the coordinates just beside it
ProbesX ==
    {c + d : c \in {sweep.world.west, sweep.world.east}
                   \cup {Out[k].bounds.west : k \in 1..Len(Out)}
                   \cup {Out[k].bounds.east : k \in 1..Len(Out)}
                   \cup {sweep.visits[k].x : k \in 1..Len(sweep.visits)},
             d \in {-1, 0, 1}}
    \cap (sweep.world.west .. sweep.world.east)

ProbesY ==
    {c + d : c \in {sweep.world.south, sweep.world.north}
                   \cup {Out[k].bounds.south : k \in 1..Len(Out)}
                   \cup {Out[k].bounds.north : k \in 1..Len(Out)}
                   \cup {sweep.visits[k].y : k \in 1..Len(sweep.visits)},
             d \in {-1, 0, 1}}
    \cap (sweep.world.south .. sweep.world.north)

InSkippedRow(p) ==
    \E k \in 1..Len(sweep.visits) :
        ~sweep.visits[k].emitted /\ Holds(CellOf(sweep.visits[k]), p)

\* C13: for a positive span the tiles have pairwise disjoint interiors, and
\* every point of the world outside the polar-excluded rows lies in exactly
\* one tile.
C13_NoGapsNoOverlaps ==
    sweep.span > 0 =>
        /\ \A k, l \in 1..Len(Out) :
               k < l => ~InteriorsMeet(Out[k].bounds, Out[l].bounds)
        /\ sweep.pc = "done" =>
               \A px \in ProbesX, py \in ProbesY :
                   LET p == [x |-> px, y |-> py]
                   IN  \/ InSkippedRow(p)
                       \/ Cardinality({k \in 1..Len(Out) : Holds(Out[k].bounds, p)}) = 1

C13_Witness ==
    /\ sweep.pc = "done"
    /\ sweep.span > 0
    /\ \E k \in 1..Len(Out) : Out[k].bounds.east < Out[k].bounds.west + sweep.span
    /\ \E k \in 1..Len(Out) : Out[k].bounds.north < Out[k].bounds.south + sweep.span
    /\ \E k \in 1..Len(sweep.visits) : ~sweep.visits[k].emitted
    /\ \E px \in ProbesX, py \in ProbesY :
           /\ ~InSkippedRow([x |-> px, y |-> py])
           /\ \E k, l \in 1..Len(Out) :
                  k # l /\ px = Out[k].bounds.east /\ px = Out[l].bounds.west

\* C14: every emitted tile has west < east and south < north, lies inside the
\* world bounds, has east and north clamped to the world, and is narrower or
\* shorter than the span only in the last column or the last row.
C14_TileBoundsClamped ==
    \A k \in 1..Len(Out) :
        LET b == Out[k].bounds
            w == sweep.world
        IN  /\ b.west < b.east
            /\ b.south < b.north
            /\ w.west <= b.west /\ b.east <= w.east
            /\ w.south <= b.south /\ b.north <= w.north
            /\ b.east = Min(b.west + sweep.span, w.east)
            /\ b.north = Min(b.south + sweep.span, w.north)
            /\ b.east - b.west < sweep.span =>
                   /\ b.east = w.east
                   /\ \A l \in 1..Len(Out) : Out[l].bounds.west <= b.west
            /\ b.north - b.south < sweep.span =>
                   /\ b.north = w.north
                   /\ \A l \in 1..Len(Out) : Out[l].bounds.south <= b.south

C14_Witness ==
    /\ sweep.pc = "done"
    /\ sweep.world \in SmallWorlds
    /\ \E k \in 1..Len(Out) :
           /\ Out[k].bounds.east - Out[k].bounds.west < sweep.span
           /\ Out[k].bounds.north - Out[k].bounds.south < sweep.span
    /\ \E k \in 1..Len(Out) :
           /\ Out[k].bounds.east - Out[k].bounds.west = sweep.span
           /\ Out[k].bounds.north - Out[k].bounds.south = sweep.span

\* C15: the dataset's tiles sequence changes only by one result appended at
\* its end, the result of the next generated tile; before tile i is taken up
\* it holds the results of the first i generated tiles, in generation order.
C15_TilesOnlyAppended ==
    /\ [](/\ Len(Appended) <= Len(tiles)
          /\ \A k \in 1..Len(Appended) :
                 /\ Appended[k].id = tiles[k].id
                 /\ Appended[k].bounds = tiles[k].bounds
          /\ pc = "loop" => Len(Appended) = i)
    /\ [][world_data'.tiles # world_data.tiles =>
              /\ Len(world_data'.tiles) = Len(world_data.tiles) + 1
              /\ SubSeq(world_data'.tiles, 1, Len(world_data.tiles)) = world_data.tiles
              /\ Last(world_data'.tiles).id = tiles[Len(world_data.tiles) + 1].id]_vars

C15_Witness ==
    /\ pc = "pace"
    /\ Len(Appended) = Len(tiles)
    /\ Len(Appended) > CheckpointEvery
    /\ \E k \in 1..Len(Appended) : Appended[k].has_data
    /\ \E k \in 1..Len(Appended) : ~Appended[k].has_data

Square(west, south, side) ==
    [west |-> west, east |-> west + side, south |-> south, north |-> south + side]

C17_EveryRunEndsWithFinalFile ==
    /\ Len(resps) <= retries
    /\ pc \in {"fetch", "reduce", "append"} => Len(Appended) = i
    /\ ~killed /\ access_token # NoToken /\ ~Running =>
           /\ pc = "returned"
           /\ output_file.complete
           /\ output_file.data = Appended

\* one pass of the inner loop moves y up, one pass of the outer loop moves x east
CursorsAdvance ==
    /\ sweep'.iters > sweep.iters => sweep'.y > sweep.y
    /\ sweep.pc = "inner" /\ sweep'.pc = "outer" => sweep'.x > sweep.x

\* C18 as stated: for every tile span both cursors strictly advance on every
\* iteration of the sweep, skipped positions included.
C18_EveryPassAdvances ==
    [][CursorsAdvance]_vars

\* C18: for every positive tile span both cursors strictly advance on every
\* iteration of the sweep, skipped positions included, and the sweep returns.
C18_PositiveSpanTerminates ==
    /\ [][sweep.span > 0 => CursorsAdvance]_vars
    /\ (sweep.span > 0) ~> (sweep.pc = "done")

C18_Witness ==
    /\ sweep.pc = "done"
    /\ sweep.world = world_bounds
    /\ sweep.span = TileSpan(5000)
    /\ Len(sweep.visits) = 81
    /\ Len(Out) < Len(sweep.visits)

\* C19: every backoff wait is followed by another request: no sleep is made
\* after the attempt with the last index, retries - 1.
C19_NoWaitAfterLastAttempt ==
    \A k \in 1..Len(sleeps) : sleeps[k].attempt < retries - 1

\* C20: constructing a converter from any client id and secret completes
\* without error, and the object then has no access credential and a process
\* URL made from its base URL.
C20_ConstructionCompletes ==
    /\ pc \notin {"ctor_raised", "main_raised"}
    /\ pc = "constructed" =>
           /\ access_token = NoToken
           /\ conv = Constructed(credentials.CLIENT_ID, credentials.CLIENT_SECRET)

-----------------------------------------------------------------------------
(* Specifications *)

Next ==
    \/ Start
    \/ \E outcome \in AuthOutcomes : Authenticate(outcome)
    \/ Begin
    \/ LoopNext
    \/ \E reply \in ProviderReplies : FetchAttempt(reply)
    \/ FetchExhausted
    \/ Reduce
    \/ AppendResult
    \/ CheckpointOpen
    \/ CheckpointDump
    \/ CheckpointSkip
    \/ Pace
    \/ LoopDone
    \/ FinalOpen
    \/ FinalDump
    \/ Cleanup
    \/ Kill

Spec == Init /\ [][Next]_vars

NextFetch ==
    \/ \E reply \in ProviderReplies : FetchAttempt(reply)
    \/ FetchExhausted

SpecFetch == InitFetch /\ [][NextFetch]_vars

NextSweep ==
    \/ SweepColumn
    \/ SweepPosition
    \/ SweepColumnDone
    \/ SweepReturn

SpecSweep == InitSweep /\ [][NextSweep]_vars

\* the single thread of control keeps running while it can
SpecSweepFair == SpecSweep /\ WF_vars(NextSweep)

NextMain ==
    \/ MainCheck
    \/ InitAssign
    \/ InitProcessUrl
    \/ MainPropagates

SpecMain == InitMain /\ [][NextMain]_vars

====
